---- MODULE Spec2Model ----
(***************************************************************************)
(* Model of src/tilda-form-handler.js: the process-wide YDB connection     *)
(* manager (initYDBDriverWithRetry, getYDBDriver, isDriverReady,           *)
(* startHealthChecks, the SIGTERM listener), the request handler           *)
(* (exports.handler) and the two workflows it dispatches to                *)
(* (handleTildaSubmission, handleVerification).                            *)
(*                                                                         *)
(* Node runs the handlers on one thread: code between two awaits is        *)
(* atomic.  Every action below is one such stretch of code, from the       *)
(* resolution of an awaited promise (or the arrival of a request, or a     *)
(* timer) to the next await.  The position of a request between two awaits *)
(* is req[r].pc.                                                           *)
(*                                                                         *)
(* Time is in milliseconds since the first instant of the behaviour, as    *)
(* Date.now() counts it; the store's CurrentUtcTimestamp() counts          *)
(* microseconds.                                                           *)
(***************************************************************************)
EXTENDS Integers, Sequences, FiniteSets, TLC

---------------------------------------------------------------------------
(* Bounds of the model *)

\* Requests that may be in flight at once.
NumSlots == 2
\* Requests started in one behaviour.
MaxRequests == 2
\* One-millisecond clock steps (on top of the five-minute steps).
MaxFine == 1
\* Five-minute clock steps.
MaxCoarse == 1
\* Submissions the store holds when the process starts.
MaxPrior == 2

---------------------------------------------------------------------------
(* Program constants *)

maxRetries == 5
initialDelay == 1000
\* the validity window of handleVerification, in minutes
WindowMinutes == 5
MsPerMinute == 60000
UsPerMs == 1000

Slots == 1..NumSlots
\* What determineSource makes of an event: a form submission or a
\* verification callback.
Sources == {"tilda", "telegram"}
NULL == "null"
Phones == {"+79990000001", "+79990000002"}
\* Verification keys a request may carry, and the rows of webhook_endpoints.
Keys == {"kEnabled", "kDisabled"}
webhook_endpoints ==
    { [key |-> "kEnabled", endpoint_url |-> "https://hook/enabled", enabled |-> TRUE],
      [key |-> "kDisabled", endpoint_url |-> "https://hook/disabled", enabled |-> FALSE] }

\* Errors an awaited store query may reject with (besides a key conflict).
StoreErrors == {"UNAVAILABLE", "Query failed"}
QueryOutcomes == {"ok"} \cup StoreErrors
\* driver.ready(timeout) resolves true, resolves false (timeout) or rejects.
ReadyOutcomes == {"true", "false", "throw"}

VARIABLES
    driverInstance,       \* 0 (null) or the number of the installed Driver
    driverInitializing,   \* the process-wide "initializing" flag
    lastDriverError,      \* NULL or the last connection error
    healthCheckInterval,  \* TRUE while the setInterval probe is scheduled
    raw_submissions,      \* table: set of rows, primary key id
    attempts,             \* table incoming_verification_attempts, primary key id
    now,                  \* Date.now()
    req,                  \* the handler invocations in flight, by slot
    started,              \* requests started so far
    driversCreated,       \* Driver objects installed so far
    seqStarted,           \* connection-establishment sequences started
    seqExhausted,         \* sequences that failed all maxRetries attempts
    posts,                \* the POSTs the webhook side has seen, in order
    openDrivers,          \* the Drivers that became ready and were not destroyed
    updateRejected,       \* TRUE once the store has rejected an UPDATE
    terminated            \* TRUE once the SIGTERM listener has run

vars == << driverInstance, driverInitializing, lastDriverError, healthCheckInterval,
           raw_submissions, attempts, now, req, started, driversCreated,
           seqStarted, seqExhausted, posts, openDrivers, terminated,
           updateRejected >>

lifeVars == << openDrivers, terminated >>
connVars == << driverInstance, driverInitializing, lastDriverError, healthCheckInterval,
               driversCreated, seqStarted, seqExhausted, lifeVars >>
storeVars == << raw_submissions, attempts, updateRejected >>

---------------------------------------------------------------------------
(* Values *)

NoRow == [found |-> FALSE]
NoResult == [statusCode |-> 0]

IdleReq ==
    [ pc |-> "idle", kind |-> NULL, phone |-> NULL, key |-> NULL,
      driver |-> 0, waited |-> FALSE, attempt |-> 0, delay |-> 0,
      attemptId |-> 0,
      orig |-> NoRow, overdue |-> FALSE, expired |-> FALSE,
      sends |-> 0, delivered |-> NULL, updates |-> 0, logged |-> 0,
      result |-> NoResult ]

\* new Date(str) for the decimal string of a Timestamp cell.  The cell holds
\* microseconds since the epoch (16 digits today); V8's legacy date parser
\* reads the first nine digits of a lone numeral as a year, far outside the
\* range of a Date, so the result is an Invalid Date (time value NaN).
NewDateFromString(us) == [valid |-> FALSE, ms |-> 0]

\* (currentTime - submissionTime) / (1000 * 60) > 5; a comparison with NaN
\* is false.
WindowExpired(currentMs, submissionTime) ==
    /\ submissionTime.valid
    /\ currentMs - submissionTime.ms > WindowMinutes * MsPerMinute

WindowMs == WindowMinutes * MsPerMinute
\* Whether more than the window has really passed since the store stamped
\* the row with CurrentUtcTimestamp().
Overdue(currentMs, row) == currentMs - (row.timestamp \div UsPerMs) > WindowMs

MutStoreUnavailableOnly(msg) ==
    msg \in {"Database connection failed", "UNAVAILABLE", "Name resolution failed"}

\* The catch of exports.handler: the response for a thrown error.
IsUnavailable(msg) ==
    msg \in {"Database connection failed", "UNAVAILABLE",
             "Name resolution failed", "Database service unavailable"}
ErrorResponse(msg) ==
    IF IsUnavailable(msg)
    THEN [statusCode |-> 503, status |-> "error", verified |-> "absent",
          webhook_sent |-> "absent", code |-> "SERVICE_UNAVAILABLE",
          retryable |-> TRUE, message |-> "Service temporarily unavailable"]
    ELSE [statusCode |-> 200, status |-> "error", verified |-> "absent",
          webhook_sent |-> "absent", code |-> "PROCESSING_ERROR",
          retryable |-> FALSE, message |-> msg]
Response(status, verified, sent, message) ==
    [statusCode |-> 200, status |-> status, verified |-> verified,
     webhook_sent |-> sent, code |-> "NONE", retryable |-> FALSE,
     message |-> message]

Throw(rec, msg) == [rec EXCEPT !.pc = "done", !.result = ErrorResponse(msg)]

\* The clock is read when a request arrives and when the store answers its
\* first query; d is the time that has passed since it was last read.
Delays == {0, 1, WindowMs}
ClockOk(d) ==
    /\ (now + d) % WindowMs <= MaxFine
    /\ (now + d) \div WindowMs <= MaxCoarse

\* A response is returned by the stretch of code that produced it: nothing
\* else runs between a request's last step and the release of its slot.
Running == \A q \in Slots : req[q].pc # "done"

---------------------------------------------------------------------------
(* The connection manager *)

MutNoFlagCheck == FALSE

\* line 27: is another acquisition in progress?
InitializationInProgress == driverInitializing

\* The flag to leave behind when a connection attempt has succeeded
\* (lines 57-63 return without touching driverInitializing).
FlagAfterSuccess == driverInitializing

MutFlagNotSet == FALSE

\* line 33: the caller that starts a sequence raises the flag, in the same
\* stretch of code that tested it.
FlagWhenStarting == TRUE

\* initYDBDriverWithRetry from line 27 on, for a caller that found no ready
\* cached connection: wait for the initialization in progress, or start one.
FlagCheck(r, rec) ==
    IF InitializationInProgress
    THEN /\ req' = [req EXCEPT ![r] = [rec EXCEPT !.pc = "poll", !.waited = TRUE]]
         /\ UNCHANGED << driverInitializing, seqStarted >>
    ELSE /\ driverInitializing' = FlagWhenStarting
         /\ seqStarted' = seqStarted + 1
         /\ req' = [req EXCEPT ![r] = [rec EXCEPT !.pc = "connect", !.attempt = 1]]

\* exports.handler after getYDBDriver() returned drv (lines 164-219): the
\* event is parsed, which is the first time it is looked at, and handed to
\* its workflow, which stamps it with Date.now() and issues its first query.
\* A null driver makes that query throw a TypeError at once.
Acquired(r, drv) ==
    \E kind \in Sources, phone \in Phones, key \in Keys \cup {NULL} :
       LET a == [IdleReq EXCEPT !.kind = kind, !.phone = phone, !.key = key,
                                !.driver = drv, !.attemptId = now]
       IN  req' = [req EXCEPT ![r] =
                     IF drv = 0
                     THEN Throw(a, "TypeError")
                     ELSE [a EXCEPT !.pc = IF kind = "tilda" THEN "insert"
                                           ELSE "find"]]

\* A request arrives: exports.handler up to the first await of getYDBDriver().
Start(r, d) ==
    /\ Running
    /\ ClockOk(d)
    /\ now' = now + d
    /\ req[r].pc = "idle"
    /\ \A q \in Slots : q < r => req[q].pc # "idle"
    /\ started < MaxRequests
    /\ started' = started + 1
    /\ IF driverInstance # 0
       THEN /\ req' = [req EXCEPT ![r].pc = "g_ready"]
            /\ UNCHANGED << driverInitializing, seqStarted >>
       ELSE FlagCheck(r, req[r])
    /\ UNCHANGED << driverInstance, lastDriverError, healthCheckInterval,
                    driversCreated, seqExhausted, storeVars, posts, lifeVars >>

\* await isDriverReady() resolves, in getYDBDriver (pc g_ready, line 87) or in
\* initYDBDriverWithRetry (pc i_ready, line 23).
ReadyResolved(r, out) ==
    /\ Running
    /\ req[r].pc \in {"g_ready", "i_ready"}
    /\ IF out = "true"
       THEN /\ Acquired(r, driverInstance)
            /\ UNCHANGED << driverInstance, driverInitializing, seqStarted >>
       ELSE /\ driverInstance' = IF out = "throw" THEN 0 ELSE driverInstance
            /\ IF req[r].pc = "g_ready" /\ driverInstance' # 0
               THEN /\ req' = [req EXCEPT ![r].pc = "i_ready"]
                    /\ UNCHANGED << driverInitializing, seqStarted >>
               ELSE FlagCheck(r, req[r])
    /\ UNCHANGED << lastDriverError, healthCheckInterval, driversCreated,
                    seqExhausted, storeVars, now, started, posts, lifeVars >>

\* The one-second timer of line 29 fires: initYDBDriverWithRetry again.
PollTimer(r) ==
    /\ Running
    /\ req[r].pc = "poll"
    /\ IF driverInstance # 0
       THEN /\ req' = [req EXCEPT ![r].pc = "i_ready"]
            /\ UNCHANGED << driverInitializing, seqStarted >>
       ELSE FlagCheck(r, req[r])
    /\ UNCHANGED << driverInstance, lastDriverError, healthCheckInterval,
                    driversCreated, seqExhausted, storeVars, now, started, posts,
                    lifeVars >>

MutLinearBackoff(attempt) == initialDelay * attempt

\* line 75
BackoffDelay(attempt) == initialDelay * 2 ^ (attempt - 1)

\* await Promise.race([readyPromise, timeoutPromise]) of attempt req[r].attempt
\* settles.  The value ready() resolves with is not looked at.
ConnectResolved(r, out) ==
    /\ Running
    /\ req[r].pc = "connect"
    /\ IF out # "throw"
       THEN /\ driverInstance' = driversCreated + 1
            /\ driversCreated' = driversCreated + 1
            /\ lastDriverError' = NULL
            /\ healthCheckInterval' = TRUE
            /\ openDrivers' = openDrivers \cup {driverInstance'}
            /\ driverInitializing' = FlagAfterSuccess
            /\ Acquired(r, driverInstance')
            /\ UNCHANGED seqExhausted
       ELSE /\ lastDriverError' = "Driver ready failed"
            /\ UNCHANGED << driverInstance, driversCreated, healthCheckInterval,
                            openDrivers >>
            /\ IF req[r].attempt = maxRetries
               THEN /\ driverInitializing' = FALSE
                    /\ seqExhausted' = seqExhausted + 1
                    /\ req' = [req EXCEPT ![r] =
                                  Throw(req[r], "Database service unavailable")]
               ELSE /\ req' = [req EXCEPT ![r].pc = "backoff",
                                          ![r].delay = BackoffDelay(req[r].attempt)]
                    /\ UNCHANGED << driverInitializing, seqExhausted >>
    /\ UNCHANGED << seqStarted, storeVars, now, started, posts, terminated >>

\* The backoff timer of line 77 fires: the next attempt.
BackoffTimer(r) ==
    /\ Running
    /\ req[r].pc = "backoff"
    /\ req' = [req EXCEPT ![r].pc = "connect", ![r].attempt = req[r].attempt + 1]
    /\ UNCHANGED << connVars, storeVars, now, started, posts >>

\* One run of the setInterval callback of startHealthChecks.
HealthProbe(out) ==
    /\ Running
    /\ healthCheckInterval
    /\ driverInstance # 0
    /\ driverInstance' = IF out = "true" THEN driverInstance ELSE 0
    /\ UNCHANGED << driverInitializing, lastDriverError, healthCheckInterval,
                    driversCreated, seqStarted, seqExhausted, storeVars, now,
                    req, started, posts, lifeVars >>

\* The SIGTERM listener, lines 855-862: the interval is cleared and the
\* cached Driver, if there is one, destroyed.  Neither variable is reset, and
\* the process is not exited: what is in flight goes on.
Sigterm ==
    /\ Running
    /\ ~terminated
    /\ terminated' = TRUE
    /\ healthCheckInterval' = FALSE
    /\ openDrivers' = openDrivers \ {driverInstance}
    /\ UNCHANGED << driverInstance, driverInitializing, lastDriverError,
                    driversCreated, seqStarted, seqExhausted, storeVars, now,
                    req, started, posts >>

---------------------------------------------------------------------------
(* The store and the webhook *)

\* A store round trip spans at least one clock instant: the first query of a
\* request resolves later than the Date.now() the request was stamped with.
RoundTrip(r) == now' > req[r].attemptId

CurrentUtcTimestamp == now' * UsPerMs

\* The row logVerificationAttempt inserts, lines 777-790.  Its parameter
\* status is not among the columns of the INSERT: the row carries none.
AuditRow(attemptId, normalizedPhone, source, verified, foundInSubmissions, status) ==
    [ id |-> attemptId, timestamp |-> CurrentUtcTimestamp,
      phone |-> normalizedPhone, source |-> source, verified |-> verified,
      found_in_submissions |-> foundInSubmissions, status |-> NULL ]

MutSwallowLogError(rec, msg) ==
    IF rec.orig.found /\ rec.key # NULL
    THEN [rec EXCEPT !.pc = "endpoint"]
    ELSE Throw(rec, msg)

\* logVerificationAttempt when its INSERT is rejected, lines 796-799: the
\* error is logged and thrown again, and handleVerification does not catch it.
LogRejected(rec, msg) == Throw(rec, msg)

\* INSERT INTO rejects a row whose primary key is already in the table.
KeyConflict(table, id) == \E row \in table : row.id = id

MutAnyByPhone(phone) == { s \in raw_submissions : s.phone = phone }

\* SELECT ... WHERE phone = p ORDER BY timestamp DESC LIMIT 1: the rows the
\* query may return (any of the newest ones), lines 668-677.
LatestByPhone(phone) ==
    { s \in raw_submissions :
        /\ s.phone = phone
        /\ \A t \in raw_submissions : t.phone = phone => t.timestamp <= s.timestamp }

\* lines 704-708: what findOriginalRawSubmission makes of the row.
OriginalData(row) ==
    [ found |-> TRUE, raw_data |-> row.raw_data,
      verification_key |-> row.verification_key,
      timestamp |-> NewDateFromString(row.timestamp) ]

MutDeleteVerified(rows, phone, key) == { s \in rows : s.phone # phone }

\* The UPDATE of lines 430-436 applied to a table: every row of the phone
\* gets phone_verified = true, webhook_sent = true and the key.
SetVerified(rows, phone, key) ==
    { IF s.phone = phone
      THEN [s EXCEPT !.phone_verified = TRUE, !.webhook_sent = TRUE,
                     !.verification_key = key]
      ELSE s : s \in rows }

MutToggleSent(rows, phone) ==
    { IF s.phone = phone THEN [s EXCEPT !.webhook_sent = ~s.webhook_sent] ELSE s :
        s \in rows }

\* The UPDATE of lines 454-458 applied to a table: every row of the phone
\* gets webhook_sent = false.
SetNotSent(rows, phone) ==
    { IF s.phone = phone THEN [s EXCEPT !.webhook_sent = FALSE] ELSE s :
        s \in rows }

\* lines 430-436
UpdateVerified(phone, key) == SetVerified(raw_submissions, phone, key)

\* lines 454-458
UpdateNotSent(phone) == SetNotSent(raw_submissions, phone)

MutEndpointIgnoringEnabled(key) ==
    IF \E e \in webhook_endpoints : e.key = key
    THEN (CHOOSE e \in webhook_endpoints : e.key = key).endpoint_url
    ELSE NULL

\* getWebhookEndpoint, lines 737-770, on the rows the query returned
EndpointUrl(key) ==
    IF \E e \in webhook_endpoints : e.key = key /\ e.enabled
    THEN (CHOOSE e \in webhook_endpoints : e.key = key).endpoint_url
    ELSE NULL

\* line 404: the explicit key of the event, else the key stored with the
\* submission.
FinalKey(rec) == IF rec.key # NULL THEN rec.key ELSE rec.orig.verification_key

MutRetrySend == "send"

\* What the catch of handleVerification does when the awaited POST has
\* rejected: one UPDATE, no second POST.
AfterSendRejected == "update_fail"

---------------------------------------------------------------------------
(* handleTildaSubmission *)

InsertResolved(r, out, d) ==
    /\ Running
    /\ req[r].pc = "insert"
    /\ ClockOk(d)
    /\ now' = now + d
    /\ RoundTrip(r)
    /\ IF out # "ok"
       THEN /\ req' = [req EXCEPT ![r] = Throw(req[r], out)]
            /\ UNCHANGED raw_submissions
       ELSE IF KeyConflict(raw_submissions, req[r].attemptId)
       THEN /\ req' = [req EXCEPT ![r] = Throw(req[r], "Conflict with existing key")]
            /\ UNCHANGED raw_submissions
       ELSE /\ raw_submissions' = raw_submissions \cup
                 { [ id |-> req[r].attemptId, timestamp |-> CurrentUtcTimestamp,
                     phone |-> req[r].phone, source |-> "tilda",
                     raw_data |-> req[r].attemptId,
                     verification_key |-> req[r].key,
                     phone_verified |-> FALSE, webhook_sent |-> FALSE ] }
            /\ req' = [req EXCEPT ![r].pc = "done",
                          ![r].result = Response("success", "absent", "absent",
                                                 "Form data saved successfully")]
    /\ UNCHANGED << connVars, attempts, updateRejected, started, posts >>

---------------------------------------------------------------------------
(* handleVerification *)

\* findOriginalRawSubmission resolves; lines 345-365 up to the await of
\* logVerificationAttempt.
FindResolved(r, out, d) ==
    /\ Running
    /\ req[r].pc = "find"
    /\ ClockOk(d)
    /\ now' = now + d
    /\ RoundTrip(r)
    /\ IF out # "ok"
       THEN req' = [req EXCEPT ![r] = Throw(req[r], out)]
       ELSE IF LatestByPhone(req[r].phone) = {}
       THEN req' = [req EXCEPT ![r].pc = "log"]
       ELSE \E row \in LatestByPhone(req[r].phone) :
               LET o == OriginalData(row)
               IN  req' = [req EXCEPT ![r].pc = "log", ![r].orig = o,
                                      ![r].overdue = Overdue(now', row),
                                      ![r].expired = WindowExpired(now', o.timestamp)]
    /\ UNCHANGED << connVars, storeVars, started, posts >>

\* The INSERT of logVerificationAttempt resolves; lines 367-411 up to the
\* await of getWebhookEndpoint's query.
LogResolved(r, out) ==
    /\ Running
    /\ req[r].pc = "log"
    /\ now' = now
    /\ IF out # "ok"
       THEN /\ req' = [req EXCEPT ![r] = LogRejected(req[r], out)]
            /\ UNCHANGED attempts
       ELSE IF KeyConflict(attempts, req[r].attemptId)
       THEN /\ req' = [req EXCEPT ![r] =
                          LogRejected(req[r], "Conflict with existing key")]
            /\ UNCHANGED attempts
       ELSE /\ attempts' = attempts \cup
                 { AuditRow(req[r].attemptId, req[r].phone, req[r].kind, FALSE,
                            req[r].orig.found,
                            IF req[r].expired THEN "timeout" ELSE NULL) }
            /\ LET rec == [req[r] EXCEPT !.logged = req[r].logged + 1]
                   finalVerificationKey == FinalKey(req[r])
               IN  IF req[r].expired
                   THEN req' = [req EXCEPT ![r] = [rec EXCEPT !.pc = "done",
                            !.result = Response("timeout", "false", "absent",
                                                "Verification window expired")]]
                   ELSE IF ~req[r].orig.found
                   THEN req' = [req EXCEPT ![r] = [rec EXCEPT !.pc = "done",
                            !.result = Response("success", "false", "absent",
                                                "Phone not found in forms")]]
                   ELSE IF finalVerificationKey = NULL
                   THEN req' = [req EXCEPT ![r] =
                                   Throw(rec, "Webhook endpoint not found")]
                   ELSE req' = [req EXCEPT ![r] = [rec EXCEPT !.pc = "endpoint"]]
    /\ UNCHANGED << connVars, raw_submissions, updateRejected, started, posts >>

\* The query of getWebhookEndpoint resolves; lines 408-427 up to the await of
\* sendToWebhookWithCookies.
EndpointResolved(r, out) ==
    /\ Running
    /\ req[r].pc = "endpoint"
    /\ IF out # "ok"
       THEN req' = [req EXCEPT ![r] = Throw(req[r], out)]
       ELSE IF EndpointUrl(FinalKey(req[r])) = NULL
       THEN req' = [req EXCEPT ![r] = Throw(req[r], "Webhook endpoint not found")]
       ELSE req' = [req EXCEPT ![r].pc = "send", ![r].sends = req[r].sends + 1]
    /\ UNCHANGED << connVars, storeVars, now, started, posts >>

\* The promise of sendToWebhookWithCookies settles (2xx resolves; another
\* status, a timeout or a network error rejects); lines 427-436 or 451-458 up
\* to the await of the UPDATE.
DeliveryOutcomes == {"2xx", "non2xx", "timeout"}
SendResolved(r, out) ==
    /\ Running
    /\ req[r].pc = "send"
    /\ posts' = Append(posts, [raw_data |-> req[r].orig.raw_data,
                               ok |-> (out = "2xx")])
    /\ IF out = "2xx"
       THEN req' = [req EXCEPT ![r].pc = "update_ok", ![r].delivered = "ok",
                               ![r].updates = req[r].updates + 1]
       ELSE IF AfterSendRejected = "update_fail"
       THEN req' = [req EXCEPT ![r].pc = "update_fail", ![r].delivered = "failed",
                               ![r].updates = req[r].updates + 1]
       ELSE req' = [req EXCEPT ![r].pc = "send", ![r].delivered = "failed",
                               ![r].sends = req[r].sends + 1]
    /\ UNCHANGED << connVars, storeVars, now, started >>

\* The UPDATE of lines 430-436 resolves.  It is awaited inside the try of
\* line 414, so its rejection lands in the catch of line 451.
UpdateResolved(r, out) ==
    /\ Running
    /\ req[r].pc = "update_ok"
    /\ IF out = "ok"
       THEN /\ raw_submissions' = UpdateVerified(req[r].phone, FinalKey(req[r]))
            /\ req' = [req EXCEPT ![r].pc = "done",
                          ![r].result = Response("success", "true", "true",
                                                 "Phone verified successfully")]
            /\ UNCHANGED updateRejected
       ELSE /\ req' = [req EXCEPT ![r].pc = "update_fail",
                                  ![r].updates = req[r].updates + 1]
            /\ updateRejected' = TRUE
            /\ UNCHANGED raw_submissions
    /\ UNCHANGED << connVars, attempts, now, started, posts >>

\* The UPDATE of lines 454-458 (in the catch) resolves.
FailUpdateResolved(r, out) ==
    /\ Running
    /\ req[r].pc = "update_fail"
    /\ IF out = "ok"
       THEN /\ raw_submissions' = UpdateNotSent(req[r].phone)
            /\ req' = [req EXCEPT ![r].pc = "done",
                          ![r].result = Response("error", "true", "false",
                                 "Verification completed but webhook failed")]
            /\ UNCHANGED updateRejected
       ELSE /\ req' = [req EXCEPT ![r] = Throw(req[r], out)]
            /\ updateRejected' = TRUE
            /\ UNCHANGED raw_submissions
    /\ UNCHANGED << connVars, attempts, now, started, posts >>

\* The response has been returned: the slot is free for the next request.
Finish(r) ==
    /\ req[r].pc = "done"
    /\ req' = [req EXCEPT ![r] = IdleReq]
    /\ UNCHANGED << connVars, storeVars, now, started, posts >>

---------------------------------------------------------------------------


\* The store outlives the process: when the process starts, raw_submissions
\* may hold rows that handleTildaSubmission inserted in an earlier life of
\* the function (times before the first instant are negative).  Row 1 is
\* the newest; it came with the key of an enabled endpoint or with none, the
\* older ones with the key of a disabled endpoint.
PriorRow(i, key) ==
    [ id |-> 0 - 2 * i, timestamp |-> (1 - 2 * i) * UsPerMs,
      phone |-> "+79990000001", source |-> "tilda", raw_data |-> 0 - 2 * i,
      verification_key |-> key, phone_verified |-> FALSE, webhook_sent |-> FALSE ]
PriorStores ==
    { { PriorRow(i, IF i = 1 THEN k ELSE "kDisabled") : i \in 1..n } :
        n \in 0..MaxPrior, k \in {"kEnabled", NULL} }

Init ==
    /\ driverInstance = 0
    /\ driverInitializing = FALSE
    /\ lastDriverError = NULL
    /\ healthCheckInterval = FALSE
    /\ raw_submissions \in PriorStores
    /\ attempts = {}
    /\ now = 0
    /\ req = [r \in Slots |-> IdleReq]
    /\ started = 0
    /\ driversCreated = 0
    /\ seqStarted = 0
    /\ seqExhausted = 0
    /\ posts = << >>
    /\ openDrivers = {}
    /\ terminated = FALSE
    /\ updateRejected = FALSE

Next ==
    \/ \E r \in Slots, d \in Delays : Start(r, d)
    \/ \E r \in Slots, out \in ReadyOutcomes : ReadyResolved(r, out)
    \/ \E r \in Slots : PollTimer(r)
    \/ \E r \in Slots, out \in ReadyOutcomes : ConnectResolved(r, out)
    \/ \E r \in Slots : BackoffTimer(r)
    \/ \E out \in ReadyOutcomes : HealthProbe(out)
    \/ Sigterm
    \/ \E r \in Slots, out \in QueryOutcomes, d \in Delays : InsertResolved(r, out, d)
    \/ \E r \in Slots, out \in QueryOutcomes, d \in Delays : FindResolved(r, out, d)
    \/ \E r \in Slots, out \in QueryOutcomes : LogResolved(r, out)
    \/ \E r \in Slots, out \in QueryOutcomes : EndpointResolved(r, out)
    \/ \E r \in Slots, out \in DeliveryOutcomes : SendResolved(r, out)
    \/ \E r \in Slots, out \in QueryOutcomes : UpdateResolved(r, out)
    \/ \E r \in Slots, out \in QueryOutcomes : FailUpdateResolved(r, out)
    \/ \E r \in Slots : Finish(r)

Spec == Init /\ [][Next]_vars

---------------------------------------------------------------------------
(* Properties *)

Verification(r) == req[r].kind \in Sources \ {"tilda"}
Done(r) == req[r].pc = "done"
InSequence(r) == req[r].pc \in {"connect", "backoff"}
Dispatching(r) == req[r].pc \in {"endpoint", "send", "update_ok", "update_fail"}
\* The responses of a request that the store or the connection let down.
EnvFailures == {"Query failed", "Service temporarily unavailable", "TypeError"}
Served(r) == Done(r) /\ req[r].result.message \notin EnvFailures
MatchedRows(r) == { s \in raw_submissions : s.raw_data = req[r].orig.raw_data }
EndpointUsable(key) == \E e \in webhook_endpoints : e.key = key /\ e.enabled

\* C1: a verification event whose latest submission is older than five
\* minutes ends Expired (status timeout, verified false) and never reaches
\* the endpoint lookup, the delivery or the flag update.
C1_ExpiredNeverDispatched ==
    \A r \in Slots :
        (Verification(r) /\ req[r].orig.found /\ req[r].overdue) =>
            /\ ~Dispatching(r)
            /\ req[r].sends = 0
            /\ req[r].updates = 0
            /\ Served(r) => /\ req[r].result.status = "timeout"
                            /\ req[r].result.verified = "false"

\* C2: a verification event for a phone with no stored submission writes
\* exactly one audit record (found_in_submissions false, verified false),
\* answers success with verified false, and looks up no endpoint, delivers
\* nothing and updates no submission.
C2_UnmatchedOneRecord ==
    \A r \in Slots :
        (Verification(r) /\ Served(r) /\ ~req[r].orig.found) =>
            /\ req[r].logged = 1
            /\ \E a \in attempts : /\ a.id = req[r].attemptId
                                   /\ a.phone = req[r].phone
                                   /\ ~a.found_in_submissions
                                   /\ ~a.verified
            /\ req[r].result.status = "success"
            /\ req[r].result.verified = "false"
            /\ req[r].sends = 0
            /\ req[r].updates = 0

\* C3 as stated: of the callers that arrive while no connection is cached,
\* only the first runs a connection-establishment sequence; a caller that
\* found an initialization in progress never starts one of its own.
C3_WaiterNeverConnects ==
    \A r \in Slots : req[r].waited => ~InSequence(r)

\* C3 as amended: no two sequences run at the same time; a sequence starts
\* only when every earlier one has failed all its attempts; a caller that
\* waited starts one only after such a failure; and once a sequence has
\* succeeded no other is started.
C3_OneSequenceAtATime ==
    /\ Cardinality({ r \in Slots : InSequence(r) }) <= 1
    /\ seqStarted <= seqExhausted + 1
    /\ \A r \in Slots : (req[r].waited /\ InSequence(r)) => seqExhausted >= 1
    /\ driversCreated <= 1
    /\ driversCreated = 1 => /\ seqStarted = seqExhausted + 1
                             /\ \A r \in Slots : ~InSequence(r)

C3_Witness ==
    \E r, q \in Slots :
        /\ InSequence(r) /\ req[r].attempt >= 2
        /\ req[q].pc = "poll" /\ req[q].waited

\* C4: once the cached connection has been invalidated, a caller of
\* acquire() does not wait unless a connection-establishment sequence is
\* running: it starts one.
C4_ReconnectAfterInvalidation ==
    \A r \in Slots :
        (driversCreated > 0 /\ driverInstance = 0 /\ req[r].pc = "poll") =>
            \E q \in Slots : InSequence(q)

\* C5: after a delivery attempt the flag update is executed exactly once
\* for the event, also when a store query after the delivery fails, and
\* what it persists is webhook_sent = (the delivery succeeded).
C5_UpdateOnceWithOutcome ==
    \A r \in Slots :
        req[r].delivered # NULL =>
            /\ req[r].updates = 1
            /\ (Done(r) /\ req[r].result.code = "NONE") =>
                  \A s \in MatchedRows(r) :
                      s.webhook_sent = (req[r].delivered = "ok")

\* C6: when the delivery fails the submission ends with phone_verified true
\* and webhook_sent false, and the response reports verified true and
\* webhook_sent false.
C6_VerifiedNotDelivered ==
    \A r \in Slots :
        (Served(r) /\ req[r].delivered = "failed") =>
            /\ req[r].result.verified = "true"
            /\ req[r].result.webhook_sent = "false"
            /\ req[r].result.code = "NONE"
            /\ \A s \in MatchedRows(r) : s.phone_verified /\ ~s.webhook_sent

\* The case of C7: a matched event, its audit record written, whose
\* effective key has no enabled endpoint.
EndpointRefused(r) ==
    /\ Verification(r) /\ Served(r)
    /\ req[r].orig.found /\ ~req[r].expired
    /\ req[r].logged = 1
    /\ ~EndpointUsable(FinalKey(req[r]))

C8_AtMostOnceDispatch ==
    \A i, j \in DOMAIN posts :
        (i < j /\ posts[i].ok /\ posts[j].ok) =>
            posts[j].raw_data # posts[i].raw_data

\* C9: one verification event makes at most one delivery attempt; a failed
\* delivery is followed by the flag update, never by another attempt.
C9_SingleAttemptPerEvent ==
    \A r \in Slots :
        /\ req[r].sends <= 1
        /\ req[r].delivered # NULL => (req[r].sends = 1 /\ req[r].pc # "send")
        /\ req[r].pc = "send" => req[r].sends = 1

C9_Witness ==
    \E r \in Slots :
        Done(r) /\ req[r].delivered = "failed" /\ req[r].sends = 1

\* C10: every verification event that reaches the matcher appends exactly
\* one audit record, also when two events are handled at the same clock
\* instant.
C10_OneAuditRecordPerEvent ==
    \A r \in Slots :
        (Verification(r) /\ Served(r)) =>
            /\ req[r].logged = 1
            /\ \E a \in attempts : a.id = req[r].attemptId /\ a.phone = req[r].phone

\* C11: the audit record written for a verification event that arrives more
\* than five minutes after its submission has found_in_submissions true,
\* verified false and status "timeout".
C11_ExpiredRecordSaysTimeout ==
    \A r \in Slots :
        (Verification(r) /\ req[r].orig.found /\ req[r].overdue
            /\ req[r].logged = 1) =>
            \E a \in attempts : /\ a.id = req[r].attemptId
                                 /\ a.found_in_submissions
                                 /\ ~a.verified
                                 /\ a.status = "timeout"

\* C12: a connection-establishment sequence makes at most five attempts and
\* ends with the first that succeeds; after the k-th failure (k < 5) it waits
\* 1000, 2000, 4000, 8000 ms; after the fifth the request fails as a
\* connection failure and the last underlying error is kept.
C12_BackoffSchedule ==
    \A r \in Slots :
        /\ InSequence(r) => (req[r].attempt \in 1..5 /\ req[r].driver = 0)
        /\ req[r].pc = "backoff" =>
              /\ req[r].attempt < 5
              /\ req[r].delay = << 1000, 2000, 4000, 8000 >>[req[r].attempt]
        /\ (req[r].attempt # 0 /\ ~InSequence(r)) =>
              /\ Done(r)
              /\ req[r].attempt = 5
              /\ req[r].result = ErrorResponse("Database service unavailable")
              /\ lastDriverError # NULL
              /\ driverInstance = 0

C12_Witness ==
    \E r \in Slots :
        /\ Done(r) /\ req[r].attempt = 5 /\ req[r].delay = 8000
        /\ req[r].result.code = "SERVICE_UNAVAILABLE"

\* C13: no caller of acquire() waits forever.  A caller polls only while its
\* wait can still end: a connection is cached, a connection-establishment
\* sequence is running, or the initializing flag is down (so that its next
\* poll starts a sequence).  In any other state no step installs a
\* connection or lowers the flag, and every poll leads back to the wait.
C13_PollingCanEnd ==
    \A r \in Slots :
        req[r].pc = "poll" =>
            \/ driverInstance # 0
            \/ ~driverInitializing
            \/ \E q \in Slots : InSequence(q)

\* C14: once SIGTERM has been handled no liveness probe is scheduled and no
\* store connection is open, whenever the signal arrives.
C14_ShutdownReleasesAll ==
    terminated => (~healthCheckInterval /\ openDrivers = {})

\* C15: a submission is eligible for matching exactly while no more than
\* five minutes have passed since it was stored: the event that finds it is
\* classified Expired if and only if more than five minutes have passed,
\* and only an event that is not so classified goes on to dispatch.
C15_EligibleExactlyWithinWindow ==
    \A r \in Slots :
        (Verification(r) /\ req[r].orig.found) =>
            /\ req[r].expired <=> req[r].overdue
            /\ req[r].sends > 0 => ~req[r].overdue

\* C16: the lookup of the matcher finds a submission exactly when one is
\* stored for the phone, and the one it returns has the greatest timestamp
\* among those stored for the phone: never an older one.
C16_LookupReturnsLatest ==
    [][ \A r \in Slots :
          (req[r].pc = "find" /\ req'[r].pc = "log") =>
              LET mine == { s \in raw_submissions : s.phone = req[r].phone }
                  got == req'[r].orig
              IN  /\ got.found <=> mine # {}
                  /\ got.found =>
                        \E s \in mine :
                            /\ s.raw_data = got.raw_data
                            /\ s.verification_key = got.verification_key
                            /\ \A t \in mine : t.timestamp <= s.timestamp
      ]_vars

C16_Witness ==
    \E r \in Slots :
        /\ req[r].pc = "log" /\ req[r].orig.found
        /\ \E s, t \in raw_submissions :
              /\ s.phone = req[r].phone /\ t.phone = req[r].phone
              /\ t.timestamp < s.timestamp
              /\ s.raw_data = req[r].orig.raw_data

\* A request whose acquire() failed: its connection-establishment sequence
\* used up its attempts.
AcquisitionFailed(r) == Done(r) /\ req[r].attempt = maxRetries

\* C17: a request whose connection acquisition failed has issued no store
\* query, written no audit record, looked up no endpoint and delivered
\* nothing, and is answered 503 "service unavailable", marked retryable.
C17_AcquisitionFailureAborts ==
    \A r \in Slots :
        AcquisitionFailed(r) =>
            /\ req[r].kind = NULL /\ req[r].driver = 0
            /\ req[r].orig = NoRow
            /\ req[r].logged = 0 /\ req[r].sends = 0 /\ req[r].updates = 0
            /\ req[r].result.statusCode = 503
            /\ req[r].result.status = "error"
            /\ req[r].result.code = "SERVICE_UNAVAILABLE"
            /\ req[r].result.message = "Service temporarily unavailable"
            /\ req[r].result.retryable

C17_Witness ==
    \E r \in Slots :
        AcquisitionFailed(r) /\ req[r].kind = NULL /\ req[r].result.retryable

\* C18: running a flag update a second time with the same values changes
\* nothing: update(update(s)) = update(s), for the update of the success
\* path and for the update of the failure path, on every table the program
\* can hold.
C18_UpdateIdempotent ==
    \A phone \in Phones :
        /\ SetNotSent(SetNotSent(raw_submissions, phone), phone)
              = SetNotSent(raw_submissions, phone)
        /\ \A key \in Keys \cup {NULL} :
              SetVerified(SetVerified(raw_submissions, phone, key), phone, key)
                = SetVerified(raw_submissions, phone, key)

\* A table on which both updates have acted and on which neither is the
\* identity: a verified, delivered row that the failure update would change
\* and an untouched row of the same phone that the success update would.
C18_Witness ==
    \E s, t \in raw_submissions :
        /\ s.phone_verified /\ s.webhook_sent
        /\ t.phone = s.phone /\ ~t.phone_verified
        /\ SetNotSent(raw_submissions, s.phone) # raw_submissions
        /\ SetVerified(raw_submissions, s.phone, s.verification_key) # raw_submissions

\* C19: a verification event resolves an endpoint, delivers or updates
\* flags only after its audit record has been written; an event whose audit
\* record could not be written ends with the error, having looked up no
\* endpoint, delivered nothing and updated nothing.
C19_AuditBeforeDispatch ==
    \A r \in Slots :
        Verification(r) =>
            /\ (Dispatching(r) \/ req[r].sends > 0 \/ req[r].updates > 0) =>
                  /\ req[r].logged = 1
                  /\ \E a \in attempts : /\ a.id = req[r].attemptId
                                         /\ a.phone = req[r].phone
                                         /\ a.found_in_submissions
                                         /\ ~a.verified
            /\ (Done(r) /\ req[r].logged = 0) =>
                  /\ req[r].sends = 0 /\ req[r].updates = 0
                  /\ req[r].delivered = NULL
                  /\ req[r].result.status = "error"
                  /\ req[r].result.code \in {"PROCESSING_ERROR", "SERVICE_UNAVAILABLE"}

C19_Witness ==
    \E r \in Slots :
        /\ Verification(r) /\ Done(r)
        /\ req[r].orig.found /\ FinalKey(req[r]) = "kEnabled"
        /\ req[r].logged = 0
        /\ req[r].result.message = "Query failed"

\* C20: whenever no delivery and no flag update is under way, the stored
\* webhook_sent of the submission delivered last equals the outcome of that
\* last delivery attempt (as long as the store has rejected no update).
C20_FlagIsLastOutcome ==
    (/\ posts # << >>
     /\ ~updateRejected
     /\ \A r \in Slots : req[r].pc \notin {"send", "update_ok", "update_fail"}) =>
        \A s \in raw_submissions :
            s.raw_data = posts[Len(posts)].raw_data =>
                s.webhook_sent = posts[Len(posts)].ok

\* C21: at most one connection-establishment sequence is in progress in
\* every reachable state; the flag is up while one is; and a caller enters a
\* sequence only in a step that found the flag down and raised it, so a
\* caller that finds the flag up waits instead.
C21_AtMostOneSequence ==
    /\ []( /\ Cardinality({ r \in Slots : InSequence(r) }) <= 1
           /\ Cardinality({ r \in Slots : InSequence(r) })
                 = seqStarted - seqExhausted - driversCreated
           /\ \A r \in Slots : InSequence(r) => driverInitializing )
    /\ [][ \A r \in Slots :
             (~InSequence(r) /\ req'[r].pc \in {"connect", "backoff"}) =>
                 /\ ~driverInitializing
                 /\ driverInitializing'
                 /\ \A q \in Slots : ~InSequence(q)
         ]_vars

C21_Witness ==
    \E r, q \in Slots :
        /\ req[r].pc = "connect" /\ req[r].attempt = 1
        /\ req[q].pc = "poll" /\ req[q].waited
        /\ driverInitializing

\* What intake stored of a submission: the fields no later step may touch.
Payload(s) ==
    [ id |-> s.id, timestamp |-> s.timestamp, phone |-> s.phone,
      source |-> s.source, raw_data |-> s.raw_data ]

\* C22: no step deletes a stored submission or changes its id, timestamp,
\* phone, source or raw_data; a step of a verification event adds none; a
\* step of a verification event that found no submission (or found it
\* expired) leaves the table as it was; and a submission that appears has
\* phone_verified and webhook_sent false.
C22_SubmissionsFrame ==
    [][ /\ \A s \in raw_submissions :
              \E t \in raw_submissions' : Payload(t) = Payload(s)
        /\ \A t \in raw_submissions' :
              (\A s \in raw_submissions : s.id # t.id) =>
                  /\ ~t.phone_verified /\ ~t.webhook_sent
                  /\ \E r \in Slots : req[r].kind = "tilda" /\ req[r].pc = "insert"
        /\ Cardinality(raw_submissions') >= Cardinality(raw_submissions)
        /\ \A r \in Slots :
              (/\ req'[r] # req[r]
               /\ Verification(r)
               /\ (~req'[r].orig.found \/ req'[r].expired)
               /\ ~req[r].orig.found \/ req[r].expired) =>
                  raw_submissions' = raw_submissions
      ]_vars

\* A matched event has had the flags updated and an unmatched event has
\* since been answered, with the payload of every submission in place.
C22_Witness ==
    /\ \E s \in raw_submissions : s.phone_verified /\ s.webhook_sent
    /\ \E r \in Slots :
          /\ Verification(r) /\ Done(r)
          /\ ~req[r].orig.found /\ req[r].logged = 1

\* C23: the flag update that ends a dispatch changes only the submission
\* that was matched; every other submission, the older ones of the same
\* phone included, is after the update what it was before.
C23_UpdateOnlyMatched ==
    [][ \A r \in Slots :
          (req[r].pc \in {"update_ok", "update_fail"} /\ req'[r].pc = "done") =>
              \A s \in raw_submissions :
                  s.raw_data # req[r].orig.raw_data => s \in raw_submissions'
      ]_vars

\* C24: the initializing flag is up only while a connection-establishment
\* sequence is in progress: whichever way the sequence that raised it ends,
\* the flag is down again.
C24_FlagOnlyWhileInitializing ==
    driverInitializing => \E r \in Slots : InSequence(r)

====
